---- MODULE Spec2Model ----
(***************************************************************************)
(* Model of src/src/block.tsx: the voxel island generator (VoxelIsland),   *)
(* the keyboard/camera controller (PlayerController) and the pointer-lock  *)
(* overlay state of Block.                                                 *)
(*                                                                         *)
(* Numbers.  TLC has 32-bit integers and no reals, so                      *)
(*  - the terrain arithmetic (Math.sin, Math.cos, Math.sqrt, the products) *)
(*    is carried out in fixed point with Scale = 10^8 units per 1.0; the   *)
(*    products are formed limb-wise so that no intermediate leaves 32 bits;*)
(*  - camera vectors are exact rationals: look directions are unit vectors *)
(*    with components in 1/DirUnit, positions and velocities are held in   *)
(*    1/PosUnit, and a frame delta is a whole number of 1/DeltaDen seconds.*)
(***************************************************************************)
EXTENDS Integers, Sequences, FiniteSets, TLC

VARIABLES
    \* PlayerController / Block
    keysPressed,        \* keysPressed.current (line 109); an absent entry reads falsy = FALSE
    velocity,           \* velocity.current (line 110)
    position,           \* camera.position
    direction,          \* camera look direction, as read by getWorldDirection (line 143)
    pointerLocked,      \* whether the pointer is captured (PointerLockControls)
    isLocked,           \* React state isLocked (line 240)
    showInstructions,   \* React state showInstructions (line 239)
    mounted,            \* PlayerController mounted: key listeners attached (lines 130-136)
    defaultPrevented,   \* whether the last key event delivered had preventDefault called
    frames,             \* number of useFrame callbacks run so far
    delta,              \* the delta argument of the last useFrame callback, in 1/DeltaDen s
    \* history of the inputs (not program state): what the claims speak about
    lastKey,            \* per movement key code: "none", "down" or "up", its latest event
    lastRecognised,     \* whether the latest key event was for one of the five codes
    seenAtFrame,        \* the codes whose latest event was a keydown when the last frame ran
    walkFrom,           \* camera position when the current forward-only run began
    walkN,              \* frames in the current forward-only run
    walkFree,           \* no frame of the current run ended on the floor clamp
    \* VoxelIsland useMemo
    gx, gz,             \* loop variables x and z (lines 36-37)
    voxelData,          \* the array being built (line 31)
    col,                \* the locals of the column body that last ran
    cols                \* number of column bodies run so far

ctlVars == <<keysPressed, velocity, position, direction, pointerLocked, isLocked,
             showInstructions, mounted, defaultPrevented, frames, delta>>
keyHist == <<lastKey, lastRecognised, seenAtFrame>>
walkHist == <<walkFrom, walkN, walkFree>>
genVars == <<gx, gz, voxelData, col, cols>>
vars == <<ctlVars, keyHist, walkHist, genVars>>

(***************************************************************************)
(* Fixed-point arithmetic                                                  *)
(***************************************************************************)
Scale == 10^8
Limb == 10^4
Pi == 3 * Scale + 14159265

Abs(a) == IF a < 0 THEN -a ELSE a
Max(a, b) == IF a >= b THEN a ELSE b

\* a * b / Scale for a, b >= 0, formed from 4-digit limbs
FMulU(a, b) ==
    LET ah == a \div Limb
        al == a % Limb
        bh == b \div Limb
        bl == b % Limb
    IN  ah * bh + (ah * bl + al * bh) \div Limb + (al * bl) \div Scale

FMul(a, b) ==
    IF (a >= 0) = (b >= 0) THEN FMulU(Abs(a), Abs(b)) ELSE -FMulU(Abs(a), Abs(b))

\* truncating division of a signed value by a positive integer
TDiv(a, d) == IF a >= 0 THEN a \div d ELSE -((-a) \div d)

\* the angle a in [0, 2*Pi + Pi/2] brought into [-Pi/2, Pi/2] with the same sine
ReduceAngle(a) ==
    LET r == IF a > Pi THEN a - 2 * Pi ELSE a
    IN  IF r > Pi \div 2 THEN Pi - r
        ELSE IF r < -(Pi \div 2) THEN -Pi - r
        ELSE r

RECURSIVE SinSeries(_, _, _, _)
\* r - r^3/3! + r^5/5! - ... : term is the k-th summand, acc the sum so far
SinSeries(r2, term, acc, k) ==
    IF k > 8 THEN acc
    ELSE LET next == -TDiv(FMul(term, r2), (2 * k) * (2 * k + 1))
         IN  SinSeries(r2, next, acc + next, k + 1)

Sin(a) == LET r == ReduceAngle(a) IN SinSeries(FMul(r, r), r, r, 1)
Cos(a) == Sin(a + Pi \div 2)

RECURSIVE ISqrtIter(_, _, _)
\* the largest r in lo..hi with r * r <= n, by bisection
ISqrtIter(n, lo, hi) ==
    IF lo = hi THEN lo
    ELSE LET mid == (lo + hi + 1) \div 2
         IN  IF mid * mid <= n THEN ISqrtIter(n, mid, hi) ELSE ISqrtIter(n, lo, mid - 1)

ISqrt(n) == ISqrtIter(n, 0, 20000)

\* Math.sqrt(d2) for an integer 0 <= d2 < 400, in Scale units: three decimals by
\* integer square root, then one Newton step
Sqrt(d2) ==
    IF d2 = 0 THEN 0
    ELSE LET r1 == ISqrt(d2 * 10^6)
             rest == d2 * 10^6 - r1 * r1
         IN  r1 * 10^5 + (rest * 50000) \div r1

(***************************************************************************)
(* VoxelIsland                                                             *)
(***************************************************************************)
size == 50
centerX == size \div 2
centerZ == size \div 2

Dirt == "#8B4513"
Grass == "#228B22"
Sand == "#F4A460"
Bedrock == "#696969"

\* lines 12-16
noise(x, z) ==
      FMul(Sin(x * (Scale \div 10)), Cos(z * (Scale \div 10))) * 2
    + FMul(Sin(x * (Scale \div 20)), Cos(z * (Scale \div 20))) * 4
    + FMul(Sin(x * (Scale \div 50)), Cos(z * (Scale \div 50))) * 8

\* (x - centerX) ** 2 + (z - centerZ) ** 2, an integer
distSquared(x, z) == (x - centerX) * (x - centerX) + (z - centerZ) * (z - centerZ)

\* line 39, in Scale units
distFromCenter(x, z) == Sqrt(distSquared(x, z))

\* line 40: size * 0.4, in whole units (50 * 0.4 is exactly 20 in doubles)
maxDistUnits == (size * 4) \div 10

\* the coastline test with <= in place of <
includedOrOnCoast(x, z) == distSquared(x, z) <= maxDistUnits * maxDistUnits

\* line 42: Math.sqrt is monotone and exact on perfect squares, so the comparison
\* of the square root with maxDist is the comparison of the squares
included(x, z) == distSquared(x, z) < maxDistUnits * maxDistUnits

\* line 44, for the value n that noise(x, z) returned
heightOf(n, x, z) ==
    IF distSquared(x, z) > maxDistUnits * maxDistUnits THEN 0
    ELSE Max(0, FMul(n, Scale - distFromCenter(x, z) \div maxDistUnits))

voxelHeightDropPlusOne(h) == h \div Scale

\* line 45: Math.floor(height) + 1
voxelHeightOf(h) == h \div Scale + 1

fillColorGrassFrom3(y, voxelHeight) ==
    IF y = voxelHeight /\ y >= 3 THEN Grass
    ELSE IF y = voxelHeight /\ y < 3 THEN Sand
    ELSE IF y = 0 THEN Bedrock
    ELSE Dirt

\* lines 48-57
fillColor(y, voxelHeight) ==
    IF y = voxelHeight /\ y > 3 THEN Grass
    ELSE IF y = voxelHeight /\ y <= 3 THEN Sand
    ELSE IF y = 0 THEN Bedrock
    ELSE Dirt

Voxel(px, py, pz, c) == [position |-> <<px, py, pz>>, color |-> c]

\* lines 71-82: the candidate leaf cells in loop order dx, dz, dy; leafDraw[k] is
\* the outcome of the k-th Math.random() < 0.7
leafCell(x, y, z, k) ==
    LET dx == (k - 1) \div 6 - 1
        dz == ((k - 1) % 6) \div 2 - 1
        dy == (k - 1) % 2
    IN  Voxel(x - centerX + dx, y + 3 + dy, z - centerZ + dz, Grass)

RECURSIVE leaves(_, _, _, _, _)
leaves(x, y, z, leafDraw, k) ==
    IF k > 18 THEN <<>>
    ELSE (IF leafDraw[k] THEN <<leafCell(x, y, z, k)>> ELSE <<>>)
         \o leaves(x, y, z, leafDraw, k + 1)

\* lines 61-82
treeVoxels(x, y, z, leafDraw) ==
    <<Voxel(x - centerX, y + 1, z - centerZ, Dirt),
      Voxel(x - centerX, y + 2, z - centerZ, Dirt)>>
    \o leaves(x, y, z, leafDraw, 1)

treeBeforeColumn(x, z, voxelHeight, y, treeDraw, leafDraw) ==
    IF y > voxelHeight THEN <<>>
    ELSE (IF y = 0 /\ voxelHeight > 5 /\ treeDraw
              THEN treeVoxels(x, voxelHeight, z, leafDraw) ELSE <<>>)
         \o <<Voxel(x - centerX, y, z - centerZ, fillColor(y, voxelHeight))>>

\* lines 48-88: one pass of the y loop; treeDraw is the outcome of
\* Math.random() < 0.02, drawn only when the two tests before it hold
yPass(x, z, voxelHeight, y, treeDraw, leafDraw) ==
    IF y > voxelHeight THEN <<>>
    ELSE (IF y = voxelHeight /\ y > 5 /\ treeDraw
              THEN treeVoxels(x, y, z, leafDraw) ELSE <<>>)
         \o <<Voxel(x - centerX, y, z - centerZ, fillColor(y, voxelHeight))>>

RECURSIVE yLoop(_, _, _, _, _, _)
\* line 47: for (let y = 0; y <= voxelHeight; y++)
yLoop(x, z, voxelHeight, y, treeDraw, leafDraw) ==
    IF y > voxelHeight THEN <<>>
    ELSE yPass(x, z, voxelHeight, y, treeDraw, leafDraw)
         \o yLoop(x, z, voxelHeight, y + 1, treeDraw, leafDraw)

\* lines 38-90: what the body of the z loop pushes for column (x, z) when
\* noise(x, z) returned n
columnVoxels(x, z, n, treeDraw, leafDraw) ==
    IF included(x, z)
        THEN yLoop(x, z, voxelHeightOf(heightOf(n, x, z)), 0, treeDraw, leafDraw)
        ELSE <<>>

\* the outcomes of the eighteen Math.random() < 0.7 draws that are explored
LeafDraws ==
    { [k \in 1..18 |-> TRUE], [k \in 1..18 |-> FALSE],
      [k \in 1..18 |-> k % 2 = 1], [k \in 1..18 |-> k % 3 = 0] }

NoDraws == [k \in 1..18 |-> FALSE]

\* the random draws the column body makes: none unless the top is above 5
columnDraws(x, z, n) ==
    IF included(x, z) /\ voxelHeightOf(heightOf(n, x, z)) > 5
        THEN { <<FALSE, NoDraws>> } \cup { <<TRUE, l>> : l \in LeafDraws }
        ELSE { <<FALSE, NoDraws>> }

\* the body of the z loop for the column at the cursor, then z++ (and x++ when
\* the z loop ends)
columnStep(n) ==
    /\ gx < size
    /\ \E d \in columnDraws(gx, gz, n) :
          /\ voxelData' = voxelData \o columnVoxels(gx, gz, n, d[1], d[2])
          /\ col' = [x |-> gx, z |-> gz, height |-> heightOf(n, gx, gz),
                     voxelHeight |-> voxelHeightOf(heightOf(n, gx, gz)),
                     base |-> Len(voxelData), tree |-> d[1]]
    /\ IF gz + 1 < size THEN gx' = gx /\ gz' = gz + 1 ELSE gx' = gx + 1 /\ gz' = 0
    /\ cols' = cols + 1
    /\ UNCHANGED <<ctlVars, keyHist, walkHist>>

\* lines 36-92 with the height field of the program
GenColumn == columnStep(noise(gx, gz))

(***************************************************************************)
(* PlayerController and Block                                              *)
(***************************************************************************)
DirUnit == 5 * 5
PosUnit == 4 * DirUnit
DeltaDen == 2 * 10

speed == 10
floorY == 2

Vec(a, b, c) == [x |-> a, y |-> b, z |-> c]
Zero == Vec(0, 0, 0)
\* camera.up
Up == Vec(0, 1, 0)
\* Canvas camera position [0, 15, 20] (line 248)
CameraStart == Vec(0, 15 * PosUnit, 20 * PosUnit)
\* the camera is created looking at the origin: (0, -15, -20) / 25
DirStart == Vec(0, -15, -20)

\* Vector3.add
add(v, w) == Vec(v.x + w.x, v.y + w.y, v.z + w.z)
\* Vector3.multiplyScalar by the rational num / den
multiplyScalar(v, num, den) == Vec(TDiv(v.x * num, den), TDiv(v.y * num, den), TDiv(v.z * num, den))
\* Vector3.crossVectors
crossVectors(a, b) ==
    Vec(a.y * b.z - a.z * b.y, a.z * b.x - a.x * b.z, a.x * b.y - a.y * b.x)
\* Vector3.length, for a vector in 1/PosUnit whose length is a whole number of them
length(v) == ISqrt(v.x * v.x + v.y * v.y + v.z * v.z)
\* Vector3.normalize: divideScalar(length() || 1), the result in 1/PosUnit
normalize(v) ==
    IF length(v) = 0 THEN v
    ELSE Vec(TDiv(v.x * PosUnit, length(v)), TDiv(v.y * PosUnit, length(v)),
             TDiv(v.z * PosUnit, length(v)))
Dot(v, w) == v.x * w.x + v.y * w.y + v.z * w.z

\* KeyboardEvent.code values delivered to the document
Codes == {"KeyW", "KeyA", "KeyS", "KeyD", "Space", "KeyQ", "Escape"}

\* String.prototype.toLowerCase on those codes
toLowerCase(code) ==
    CASE code = "KeyW" -> "keyw"
      [] code = "KeyA" -> "keya"
      [] code = "KeyS" -> "keys"
      [] code = "KeyD" -> "keyd"
      [] code = "Space" -> "space"
      [] code = "KeyQ" -> "keyq"
      [] code = "Escape" -> "escape"

\* the list literal of lines 116 and 124
movementKeys == {"keyw", "keya", "keys", "keyd", "space"}

\* the look directions explored, in 1/DirUnit: the initial one, a steep one with
\* all three components, one above the horizon, and straight down
Dirs == {DirStart, Vec(9, -20, 12), Vec(0, 15, -20), Vec(0, -25, 0)}

\* the frame deltas explored, in 1/DeltaDen s: 0.05 s and a 2 s stall
Deltas == {1, 40}

handleKeySetsOnly(code, pressed) ==
    /\ mounted
    /\ LET key == toLowerCase(code)
       IN  /\ keysPressed' = IF key \in movementKeys /\ pressed
                               THEN [keysPressed EXCEPT ![key] = TRUE]
                               ELSE keysPressed
           /\ defaultPrevented' = (key \in movementKeys)
    /\ UNCHANGED <<velocity, position, direction, pointerLocked, isLocked,
                   showInstructions, mounted, frames, delta, genVars>>

\* lines 114-128: handleKeyDown (pressed = TRUE) and handleKeyUp (pressed = FALSE)
handleKey(code, pressed) ==
    /\ mounted
    /\ LET key == toLowerCase(code)
       IN  IF key \in movementKeys
               THEN /\ keysPressed' = [keysPressed EXCEPT ![key] = pressed]
                    /\ defaultPrevented' = TRUE
               ELSE /\ keysPressed' = keysPressed
                    /\ defaultPrevented' = FALSE
    /\ UNCHANGED <<velocity, position, direction, pointerLocked, isLocked,
                   showInstructions, mounted, frames, delta, genVars>>

\* lines 133-136: the effect's cleanup removes both listeners
Unmount ==
    /\ mounted
    /\ mounted' = FALSE
    /\ UNCHANGED <<keysPressed, velocity, position, direction, pointerLocked, isLocked,
                   showInstructions, defaultPrevented, frames, delta, genVars>>

onLockKeepsPrompt ==
    /\ showInstructions' = FALSE
    /\ UNCHANGED isLocked

\* lines 272-275
onLock ==
    /\ isLocked' = TRUE
    /\ showInstructions' = FALSE

\* lines 276-279
onUnlock ==
    /\ isLocked' = FALSE
    /\ showInstructions' = TRUE

\* PointerLockControls: a click requests the lock; when the browser grants it (also
\* when the pointer is already captured) the lock event fires, when it denies it
\* nothing fires
Click(granted) ==
    /\ mounted
    /\ pointerLocked' = (pointerLocked \/ granted)
    /\ IF granted THEN onLock ELSE UNCHANGED <<isLocked, showInstructions>>
    /\ UNCHANGED <<keysPressed, velocity, position, direction, mounted,
                   defaultPrevented, frames, delta, genVars>>

\* PointerLockControls: the capture is released or revoked; the unlock event fires
Release ==
    /\ mounted
    /\ pointerLocked' = FALSE
    /\ onUnlock
    /\ UNCHANGED <<keysPressed, velocity, position, direction, mounted,
                   defaultPrevented, frames, delta, genVars>>

\* PointerLockControls turns the camera with the mouse while the pointer is captured
MouseLook(d) ==
    /\ mounted
    /\ pointerLocked
    /\ d # direction
    /\ direction' = d
    /\ UNCHANGED <<keysPressed, velocity, position, pointerLocked, isLocked,
                   showInstructions, mounted, defaultPrevented, frames, delta, genVars>>

\* line 244: <Instructions show={showInstructions && !isLocked} />
InstructionsVisible == showInstructions /\ ~isLocked
\* line 287: {!isLocked && ( ... )}
PromptVisible == ~isLocked

forwardOfLevel(dir) == Vec(dir.x * (PosUnit \div DirUnit), 0, dir.z * (PosUnit \div DirUnit))

\* the forward vector of line 146, in 1/PosUnit
forwardOf(dir) == Vec(dir.x * (PosUnit \div DirUnit), dir.y * (PosUnit \div DirUnit),
                      dir.z * (PosUnit \div DirUnit))
\* line 147
rightOf(dir) == normalize(crossVectors(forwardOf(dir), Up))

\* lines 143-167: the velocity accumulated in one frame.  multiplyScalar scales
\* its receiver in place and returns it, so forward and right keep their scaling
\* from one key's branch to the next.
frameVelocity(keys, dir, dt) ==
    LET f0 == forwardOf(dir)
        r0 == rightOf(dir)
        f1 == IF keys["keyw"] THEN multiplyScalar(f0, speed * dt, DeltaDen) ELSE f0
        v1 == IF keys["keyw"] THEN add(Zero, f1) ELSE Zero
        f2 == IF keys["keys"] THEN multiplyScalar(f1, -speed * dt, DeltaDen) ELSE f1
        v2 == IF keys["keys"] THEN add(v1, f2) ELSE v1
        r1 == IF keys["keya"] THEN multiplyScalar(r0, -speed * dt, DeltaDen) ELSE r0
        v3 == IF keys["keya"] THEN add(v2, r1) ELSE v2
        r2 == IF keys["keyd"] THEN multiplyScalar(r1, speed * dt, DeltaDen) ELSE r1
        v4 == IF keys["keyd"] THEN add(v3, r2) ELSE v3
    IN  IF keys["space"] THEN Vec(v4.x, v4.y + (PosUnit * speed * dt) \div DeltaDen, v4.z)
        ELSE v4

frameVelocityWhenLocked(dt) ==
    IF isLocked THEN frameVelocity(keysPressed, direction, dt) ELSE Zero

\* the velocity of this frame: useFrame reads keysPressed.current and the camera
frameVelocityNow(dt) == frameVelocity(keysPressed, direction, dt)

keepAboveGroundOff(p) == p

\* lines 173-175
keepAboveGround(p) == IF p.y < floorY * PosUnit THEN Vec(p.x, floorY * PosUnit, p.z) ELSE p

\* lines 139-176
useFrame(dt) ==
    /\ mounted
    /\ velocity' = frameVelocityNow(dt)
    /\ position' = keepAboveGround(add(position, velocity'))
    /\ frames' = frames + 1
    /\ delta' = dt
    /\ UNCHANGED <<keysPressed, direction, pointerLocked, isLocked, showInstructions,
                   mounted, defaultPrevented, genVars>>

handleKeyDown(code) == handleKey(code, TRUE)
handleKeyUp(code) == handleKey(code, FALSE)

(***************************************************************************)
(* Specifications                                                          *)
(***************************************************************************)
MaxFrames == 1
MaxRun == 3
MaxColumns == 2

NoColumn == [x |-> -1, z |-> -1, height |-> 0, voxelHeight |-> 0, base |-> 0, tree |-> FALSE]

\* the five codes the claims call recognised
MovementCodes == {"KeyW", "KeyA", "KeyS", "KeyD", "Space"}

InitController ==
    /\ keysPressed = [k \in movementKeys |-> FALSE]
    /\ velocity = Zero
    /\ position = CameraStart
    /\ direction = DirStart
    /\ pointerLocked = FALSE
    /\ isLocked = FALSE
    /\ showInstructions = TRUE
    /\ mounted = TRUE
    /\ defaultPrevented = FALSE
    /\ frames = 0
    /\ delta = 0
    /\ lastKey = [c \in MovementCodes |-> "none"]
    /\ lastRecognised = FALSE
    /\ seenAtFrame = {}
    /\ walkFrom = CameraStart
    /\ walkN = 0
    /\ walkFree = TRUE

InitIsland ==
    /\ gx = 0
    /\ gz = 0
    /\ voxelData = <<>>
    /\ col = NoColumn
    /\ cols = 0

Init == InitController /\ InitIsland

\* The controller: every handler, up to the MaxFrames-th frame.  The histories
\* are not kept here.
NoHistory == UNCHANGED <<keyHist, walkHist>>

KeyDown(c) == frames < MaxFrames /\ handleKeyDown(c) /\ NoHistory
KeyUp(c) == frames < MaxFrames /\ handleKeyUp(c) /\ NoHistory
PointerClick(g) == frames < MaxFrames /\ Click(g) /\ NoHistory
PointerRelease == frames < MaxFrames /\ Release /\ NoHistory
PointerLook(d) == frames < MaxFrames /\ MouseLook(d) /\ NoHistory
Frame(dt) == frames < MaxFrames /\ useFrame(dt) /\ NoHistory
Teardown == frames < MaxFrames /\ Unmount /\ NoHistory

Next ==
    \/ \E c \in Codes : KeyDown(c)
    \/ \E c \in Codes : KeyUp(c)
    \/ \E g \in BOOLEAN : PointerClick(g)
    \/ PointerRelease
    \/ \E d \in Dirs : PointerLook(d)
    \/ \E dt \in Deltas : Frame(dt)
    \/ Teardown

Spec == Init /\ [][Next]_vars

\* The key listeners and the frame loop, with the history of the key events
KeyDownObserved(c) ==
    /\ frames < MaxFrames
    /\ handleKeyDown(c)
    /\ lastKey' = IF c \in MovementCodes THEN [lastKey EXCEPT ![c] = "down"] ELSE lastKey
    /\ lastRecognised' = (c \in MovementCodes)
    /\ UNCHANGED <<seenAtFrame, walkHist>>

KeyUpObserved(c) ==
    /\ frames < MaxFrames
    /\ handleKeyUp(c)
    /\ lastKey' = IF c \in MovementCodes THEN [lastKey EXCEPT ![c] = "up"] ELSE lastKey
    /\ lastRecognised' = (c \in MovementCodes)
    /\ UNCHANGED <<seenAtFrame, walkHist>>

FrameObserved(dt) ==
    /\ frames < MaxFrames
    /\ useFrame(dt)
    /\ seenAtFrame' = {c \in MovementCodes : lastKey[c] = "down"}
    /\ UNCHANGED <<lastKey, lastRecognised, walkHist>>

TeardownObserved == frames < MaxFrames /\ Unmount /\ UNCHANGED <<keyHist, walkHist>>

NextKeys ==
    \/ \E c \in Codes : KeyDownObserved(c)
    \/ \E c \in Codes : KeyUpObserved(c)
    \/ \E dt \in Deltas : FrameObserved(dt)
    \/ TeardownObserved

SpecKeys == Init /\ [][NextKeys]_vars

\* Walking forward: only the forward key is used; a run is a maximal sequence of
\* frames with the forward key held, one look direction and one delta
OnlyForward == keysPressed = [k \in movementKeys |-> k = "keyw"]

WalkRestart ==
    /\ walkFrom' = position
    /\ walkN' = 0
    /\ walkFree' = TRUE

ForwardKey(pressed) ==
    /\ frames < MaxRun
    /\ handleKey("KeyW", pressed)
    /\ IF keysPressed' # keysPressed THEN WalkRestart ELSE UNCHANGED walkHist
    /\ UNCHANGED keyHist

Capture == frames < MaxRun /\ Click(TRUE) /\ UNCHANGED <<keyHist, walkHist>>

Escape == frames < MaxRun /\ Release /\ UNCHANGED <<keyHist, walkHist>>

Look(d) == frames < MaxRun /\ MouseLook(d) /\ WalkRestart /\ UNCHANGED keyHist

Walk(dt) ==
    /\ frames < MaxRun
    /\ useFrame(dt)
    /\ LET free == add(position, velocity') = position'
       IN  IF OnlyForward /\ walkN > 0 /\ dt = delta
               THEN /\ walkN' = walkN + 1
                    /\ walkFree' = (walkFree /\ free)
                    /\ UNCHANGED walkFrom
           ELSE IF OnlyForward
               THEN /\ walkFrom' = position
                    /\ walkN' = 1
                    /\ walkFree' = free
           ELSE /\ walkFrom' = position'
                /\ walkN' = 0
                /\ walkFree' = TRUE
    /\ UNCHANGED keyHist

NextForward ==
    \/ \E p \in BOOLEAN : ForwardKey(p)
    \/ Capture
    \/ Escape
    \/ \E d \in Dirs : Look(d)
    \/ \E dt \in Deltas : Walk(dt)

SpecForward == Init /\ [][NextForward]_vars

\* The island generator as the program runs it
SpecIsland == Init /\ [][GenColumn]_vars

\* The column body on its own: started at a cursor, fed a height sample within the
\* range of noise (|noise| <= 2 + 4 + 8), run for up to MaxColumns columns
StartCursors ==
    { <<25, 25>>, <<25, 24>>, <<5, 25>>, <<6, 25>>, <<13, 9>>, <<24, 49>>, <<30, 20>> }

NoiseSamples == { k * Scale : k \in {-3, 0, 2, 6, 9, 14} }

InitColumn ==
    /\ InitController
    /\ \E c \in StartCursors : gx = c[1] /\ gz = c[2]
    /\ voxelData = <<>>
    /\ col = NoColumn
    /\ cols = 0

NextColumn ==
    /\ cols < MaxColumns
    /\ \E n \in NoiseSamples : columnStep(n)

SpecColumn == InitColumn /\ [][NextColumn]_vars

(***************************************************************************)
(* Properties                                                              *)
(***************************************************************************)
FrameStep == frames' = frames + 1

\* C1 (floor clamp): the camera's y is never below 2, and a frame whose position
\* plus velocity would be below 2 ends with y exactly 2.
C1_FloorClamp ==
    /\ [](position.y >= 2 * PosUnit)
    /\ [][FrameStep => /\ position'.y >= 2 * PosUnit
                       /\ (position.y + velocity'.y < 2 * PosUnit => position'.y = 2 * PosUnit)]_vars

\* a frame from the initial height that ran into the clamp
C1_Clamped ==
    /\ frames = 1
    /\ CameraStart.y + velocity.y < 2 * PosUnit
    /\ position.y = 2 * PosUnit

\* C2 (lock/overlay): the instructions overlay and the start prompt are both shown
\* exactly when the pointer is not captured, both hidden exactly when it is.
C2_OverlayFollowsLock ==
    /\ InstructionsVisible = ~pointerLocked
    /\ PromptVisible = ~pointerLocked

\* the pointer is captured and both are hidden
C2_LockedHidden == pointerLocked /\ ~InstructionsVisible /\ ~PromptVisible

\* the flag the claim pairs with each code
FlagOf(c) ==
    CASE c = "KeyW" -> "keyw" [] c = "KeyA" -> "keya" [] c = "KeyS" -> "keys"
      [] c = "KeyD" -> "keyd" [] c = "Space" -> "space"

\* C3 (last write wins): each of the five flags is true iff the latest event for its
\* key was a keydown; a frame moves by the flags so determined (none down: no
\* movement); the default action of the latest event was suppressed iff it was for
\* one of the five keys, and other keys change no flag.
C3_LastWriteWins ==
    /\ DOMAIN keysPressed = {FlagOf(c) : c \in MovementCodes}
    /\ \A c \in MovementCodes : keysPressed[FlagOf(c)] = (lastKey[c] = "down")
    /\ defaultPrevented = lastRecognised
    /\ frames > 0 =>
         /\ velocity = frameVelocity([k \in movementKeys |->
                           \E c \in seenAtFrame : FlagOf(c) = k], direction, delta)
         /\ (seenAtFrame = {} => velocity = Zero)

\* forward was pressed and released, another key came last, then a frame ran
C3_PressReleaseThenFrame ==
    /\ lastKey["KeyW"] = "up"
    /\ ~lastRecognised
    /\ frames = 1
    /\ velocity = Zero
    /\ position = CameraStart

\* displacement since the run began, projected on the look direction, against
\* speed * dt * n (both sides times DirUnit * PosUnit * DeltaDen)
WalkProjection ==
    Dot(Vec(position.x - walkFrom.x, position.y - walkFrom.y, position.z - walkFrom.z),
        direction) * DeltaDen
WalkExpected == DirUnit * PosUnit * 10 * delta * walkN

\* C4 as claimed: after n forward-only frames the projected displacement is
\* speed * dt * n, for every look direction.
C4_AsClaimed == walkN > 0 => WalkProjection = WalkExpected

\* C4 (forward movement), amended: the same, for runs in which no frame ended on
\* the floor clamp.
C4_ForwardUnclamped == (walkN > 0 /\ walkFree) => WalkProjection = WalkExpected

\* a run of two frames looking below the horizon that began away from the start
C4_TwoFramesDownhill ==
    /\ walkN >= 2
    /\ walkFree
    /\ direction.y < 0
    /\ walkFrom # CameraStart
    /\ position # walkFrom

\* what each key is meant to add: speed * delta along its own direction
keyContribution(key, dir, dt) ==
    CASE key = "keyw" -> multiplyScalar(forwardOf(dir), speed * dt, DeltaDen)
      [] key = "keys" -> multiplyScalar(forwardOf(dir), -speed * dt, DeltaDen)
      [] key = "keya" -> multiplyScalar(rightOf(dir), -speed * dt, DeltaDen)
      [] key = "keyd" -> multiplyScalar(rightOf(dir), speed * dt, DeltaDen)
      [] key = "space" -> Vec(0, (PosUnit * speed * dt) \div DeltaDen, 0)

\* the sum, over the pressed keys, of each key's own contribution
RECURSIVE SumContributions(_, _, _)
SumContributions(pressed, dir, dt) ==
    IF pressed = {} THEN Zero
    ELSE LET k == CHOOSE k \in pressed : TRUE
         IN  add(keyContribution(k, dir, dt), SumContributions(pressed \ {k}, dir, dt))

\* C7 (additive velocity): in a frame the velocity is the sum over the pressed keys
\* of speed * delta times the key's direction (so W with S, or A with D, cancel).
C7_Additive ==
    [][FrameStep =>
         velocity' = SumContributions({k \in movementKeys : keysPressed[k]},
                                      direction, delta')]_vars

\* C10 (independent of the lock): a frame's velocity and new position are given by
\* the key flags, the look direction, the position and the delta alone, so keys
\* move the camera also while the pointer is free; a change of the lock state
\* changes neither the flags nor the position.
C10_LockIndependent ==
    [][/\ FrameStep =>
            /\ velocity' = frameVelocity(keysPressed, direction, delta')
            /\ position' = keepAboveGround(add(position, velocity'))
       /\ (isLocked' # isLocked \/ pointerLocked' # pointerLocked) =>
            /\ keysPressed' = keysPressed
            /\ position' = position]_vars

\* the camera moved in a frame while the pointer was free and the overlay shown
C10_MovedUnlocked ==
    /\ frames = 1
    /\ ~pointerLocked
    /\ ~isLocked
    /\ InstructionsVisible
    /\ position # CameraStart

\* the voxels the column body that last ran pushed
Segment == SubSeq(voxelData, col.base + 1, Len(voxelData))
Done == gx = size
\* a voxel's column is nearer than 0.4 * size to the centre: d^2 < 0.16 * size^2
InsideCoast(v) ==
    (v.position[1] * v.position[1] + v.position[3] * v.position[3]) * 25 < 4 * size * size

\* C5 (coastline): every voxel lies in a column nearer than 0.4 * size to the
\* centre, a column at or beyond that distance pushes nothing, and the finished
\* sequence holds the centre column's bedrock voxel.
C5_Coastline ==
    /\ \A i \in 1..Len(Segment) : InsideCoast(Segment[i])
    /\ (col.x >= 0 /\ distSquared(col.x, col.z) * 25 >= 4 * size * size) => Segment = <<>>
    /\ Done => /\ \A i \in 1..Len(voxelData) : InsideCoast(voxelData[i])
               /\ \E i \in 1..Len(voxelData) : voxelData[i] = Voxel(0, 0, 0, Bedrock)

\* the centre column has just pushed its voxels, bedrock first
C5_CentreColumn ==
    /\ col.x = centerX
    /\ col.z = centerZ
    /\ Segment # <<>>
    /\ Segment[1] = Voxel(0, 0, 0, Bedrock)

\* the colour the claim gives the fill voxel at elevation y
ClaimedColor(y, h) ==
    IF y = 0 THEN Bedrock
    ELSE IF y = h /\ y > 3 THEN Grass
    ELSE IF y = h /\ y <= 3 THEN Sand
    ELSE Dirt

IsFill(v) ==
    /\ v.position[1] = col.x - centerX
    /\ v.position[3] = col.z - centerZ
    /\ v.position[2] <= col.voxelHeight

\* C6 (colour rule): every fill voxel has the colour of the claimed precedence,
\* every voxel at y = 0 is bedrock, and the top fill voxel is sand iff
\* voxelHeight <= 3 and grass iff voxelHeight > 3.
C6_ColourRule ==
    \A i \in 1..Len(Segment) :
        LET v == Segment[i]
        IN  /\ IsFill(v) => v.color = ClaimedColor(v.position[2], col.voxelHeight)
            /\ v.position[2] = 0 => v.color = Bedrock
            /\ (IsFill(v) /\ v.position[2] = col.voxelHeight) =>
                   /\ (v.color = Sand) = (col.voxelHeight <= 3)
                   /\ (v.color = Grass) = (col.voxelHeight > 3)

\* a column with a grass top over dirt over bedrock
C6_GrassColumn ==
    /\ col.voxelHeight = 4
    /\ Len(Segment) = 5
    /\ Segment[5].color = Grass
    /\ Segment[2].color = Dirt
    /\ Segment[1].color = Bedrock

\* the column body ran for a column inside the coast
ColumnIncluded == col.x >= 0 /\ distSquared(col.x, col.z) * 25 < 4 * size * size
\* max(0, H(x, z) * (1 - distance / maxDistance)) for the column, in Scale units
ScaledHeight ==
    Max(0, FMul(noise(col.x, col.z), Scale - Sqrt(distSquared(col.x, col.z)) \div 20))
Floor(h) == h \div Scale
\* the fill voxels of the column are one voxel at each y = 0..top, in that order
FillIsExactly(top) ==
    LET fill == SelectSeq(Segment, IsFill)
    IN  /\ Len(fill) = top + 1
        /\ \A y \in 0..top : fill[y + 1].position = <<col.x - centerX, y, col.z - centerZ>>

\* C8 as claimed: voxelHeight is the floor of the scaled height and the fill
\* voxels are y = 0..voxelHeight.
C8_AsClaimed ==
    ColumnIncluded => /\ col.voxelHeight = Floor(ScaledHeight)
                      /\ FillIsExactly(Floor(ScaledHeight))

\* C8 (column height), amended: voxelHeight is the floor of the scaled height plus
\* one, and the fill voxels are y = 0..voxelHeight (a column whose scaled height
\* is below 1 has voxelHeight 1 and two fill voxels).
C8_FloorPlusOne ==
    ColumnIncluded => /\ col.voxelHeight = Floor(ScaledHeight) + 1
                      /\ FillIsExactly(Floor(ScaledHeight) + 1)
                      /\ (ScaledHeight < Scale => Len(SelectSeq(Segment, IsFill)) = 2)

\* a coast column whose scaled height is positive and below 1
C8_CoastColumn ==
    /\ ColumnIncluded
    /\ distSquared(col.x, col.z) >= 19 * 19
    /\ ScaledHeight > 0
    /\ ScaledHeight < Scale
    /\ Len(Segment) = 2

\* the column that last ran drew a tree
TreeGiven == ColumnIncluded /\ col.voxelHeight > 5 /\ col.tree
\* the cursor stands on the column after the one that last ran, x-major, z-minor
CursorFollows ==
    cols > 0 => <<gx, gz>> = IF col.z + 1 < size THEN <<col.x, col.z + 1>>
                              ELSE <<col.x + 1, 0>>
IsTrunk(v, y) == v = Voxel(col.x - centerX, y, col.z - centerZ, Dirt)
IsLeaf(v) ==
    /\ v.color = Grass
    /\ v.position[1] - (col.x - centerX) \in -1..1
    /\ v.position[3] - (col.z - centerZ) \in -1..1
    /\ v.position[2] - col.voxelHeight \in 3..4

====
